---- MODULE Spec2Model ----
(***************************************************************************)
(* Model of src/app/lib/solscan.ts: the rate-limited Solscan fetcher       *)
(* (callSolscanAPI), the recursive relation explorer                       *)
(* (getRelatedTransactions), its entry point (getAddressRelationGraph) and *)
(* the batch shallow-graph query (getLatestTransaction, mergeMaps,         *)
(* getTransactionGraph).                                                   *)
(*                                                                         *)
(* Every async function is cut at its await points, and at the calls of    *)
(* getRelatedTransactions: an action is never more than the synchronous    *)
(* code between two suspensions.  The ledger is the environment: the       *)
(* response of each request is chosen when the request settles.            *)
(***************************************************************************)
EXTENDS Integers, Sequences, FiniteSets, TLC

\* ------------------------------------------------------------------ bounds
\* maxDepth of a top-level traversal ranges over 0..MaxDepthBound
MaxDepthBound == 3
\* amounts are kept exactly, as integers in units of 10^-MaxDecimals SOL
MaxDecimals == 1
\* a batch query has at most MaxSeeds seed addresses
MaxSeeds == 2
\* the module-level counter holds 0..MaxPriorCalls when a request comes in
\* (what earlier traversals of the same process left in it)
MaxPriorCalls == 1
\* graphs handed to the depth classifier alone have at most MaxGraphEdges edges
MaxGraphEdges == 3

\* --------------------------------------------------------------- constants
\* maxDepth passed by getAddressRelationGraph
DefaultMaxDepth == 2
\* getAddressRelationGraph runs the classification loop this many times
NumPasses == 4
\* the address format of the route: {32,44} characters
MinAddressLen == 32
MaxAddressLen == 44

\* ---------------------------------------------------------------- universe
Addr == {"A", "B", "C", "D"}
Roots == {"A"}
Flows == {"in", "out"}

RECURSIVE Pow10(_)
Pow10(n) == IF n = 0 THEN 1 ELSE 10 * Pow10(n - 1)

\* a whole number of SOL in the model's fixed-point unit
Sol(n) == n * Pow10(MaxDecimals)

\* minAmount values supplied by callers (analyze.ts passes 10)
MinAmounts == {Sol(10), Sol(30)}

\* ------------------------------------------------ SolscanTransaction, pages
\* a record of the ledger: interface SolscanTransaction
Rec(f, t, raw, dec, time) ==
    [from_address |-> f, to_address |-> t, amount |-> raw,
     token_decimals |-> dec, block_time |-> time]

\* The transfers on the ledger.  Each is seen by the outbound query of its
\* sender and by the inbound query of its receiver.
CoreLedger ==
    { Rec("A", "B", 50, 0, 1),    \* 50 SOL
      Rec("A", "B", 200, 1, 2),   \* 20 SOL, same pair at another time
      Rec("A", "A", 50, 0, 1),    \* self-transfer
      Rec("B", "C", 200, 1, 1),   \* 20 SOL
      Rec("B", "A", 50, 0, 2),    \* closes the cycle A -> B -> A
      Rec("B", "C", 50, 1, 2),    \* 5 SOL, below minAmount
      Rec("C", "A", 200, 1, 1),   \* 20 SOL
      Rec("C", "B", 50, 1, 2),    \* 5 SOL, below minAmount
      Rec("C", "C", 200, 1, 2) }  \* self-transfer

\* with a sender that has no other transfer
Ledger == CoreLedger \cup {Rec("D", "B", 50, 0, 1)}

\* the records the endpoint can return first for a query (address, flow)
RecordsFor(address, flow) ==
    {r \in Ledger : IF flow = "in" THEN r.to_address = address
                                   ELSE r.from_address = address}

NoResponse == [kind |-> "none", success |-> FALSE, isArray |-> FALSE, data |-> <<>>]
\* axios.get rejects: transport failure or a non-2xx status
Throw == [kind |-> "throw", success |-> FALSE, isArray |-> FALSE, data |-> <<>>]
\* axios.get resolves with response.data = {success, data}
Ok(success, isArray, data) ==
    [kind |-> "ok", success |-> success, isArray |-> isArray, data |-> data]

\* The pages of more than one record the endpoint serves: the second record
\* is an acceptable one, the first is below minAmount for some caller or is
\* a transfer the traversal can have met before.
LongPages ==
    { <<Rec("C", "A", 200, 1, 1), Rec("B", "A", 50, 0, 2)>>,    \* to A
      <<Rec("A", "B", 50, 0, 1), Rec("A", "B", 200, 1, 2)>>,    \* from A
      <<Rec("C", "B", 50, 1, 2), Rec("A", "B", 50, 0, 1)>>,     \* to B
      <<Rec("B", "C", 50, 1, 2), Rec("B", "A", 50, 0, 2)>> }    \* from B

\* what one request to the endpoint can come back with: a rejection, an
\* error body (success false, no data), a body whose data is not an array,
\* an empty page, or a page that starts with a record of the ledger
Responses(address, flow) ==
    {Throw, Ok(FALSE, FALSE, <<>>), Ok(TRUE, FALSE, <<>>), Ok(TRUE, TRUE, <<>>)}
    \cup {Ok(TRUE, TRUE, <<r>>) : r \in RecordsFor(address, flow)}
    \cup {Ok(TRUE, TRUE, pg) : pg \in {q \in LongPages :
                \A j \in 1..Len(q) : q[j] \in RecordsFor(address, flow)}}

AllResponses(flow) == UNION {Responses(a, flow) : a \in Addr}

\* the responses with at most one record, over the transfers among A, B, C
CoreResponses(flow) ==
    {r \in AllResponses(flow) :
        Len(r.data) <= 1 /\ \A j \in 1..Len(r.data) : r.data[j] \in CoreLedger}

\* ----------------------------------------------------- Map<string, Transaction[]>
\* A Map keeps its keys in insertion order: a graph is a sequence of entries
\* [key, edges].
EmptyMap == <<>>

Has(g, k) == \E i \in 1..Len(g) : g[i].key = k

Get(g, k) == LET i == CHOOSE j \in 1..Len(g) : g[j].key = k IN g[i].edges

Keys(g) == {g[i].key : i \in 1..Len(g)}

\* (mutant) g.set(k, es): the edges already stored under k are replaced
PushReplace(g, k, es) ==
    IF Has(g, k)
    THEN [i \in 1..Len(g) |->
            IF g[i].key = k THEN [g[i] EXCEPT !.edges = es] ELSE g[i]]
    ELSE Append(g, [key |-> k, edges |-> es])

\* if (!g.has(k)) g.set(k, []);  g.get(k)?.push(...es)
PushAll(g, k, es) ==
    IF Has(g, k)
    THEN [i \in 1..Len(g) |->
            IF g[i].key = k THEN [g[i] EXCEPT !.edges = @ \o es] ELSE g[i]]
    ELSE Append(g, [key |-> k, edges |-> es])

\* (mutant) the graph of the sub-traversal is not merged
MergeDropped(g, h) == g

\* for (const [from, edges] of relatedTx) { ... push(...edges) }
RECURSIVE MergeInto(_, _)
MergeInto(g, h) ==
    IF h = <<>> THEN g
    ELSE MergeInto(PushAll(g, h[1].key, h[1].edges), Tail(h))

\* all edges of a graph with their origin and their position in the Map
EdgesOf(g) ==
    UNION {{[from |-> g[i].key, edge |-> g[i].edges[j], pos |-> <<i, j>>] :
                j \in 1..Len(g[i].edges)} : i \in 1..Len(g)}

NumEdges(g) == Cardinality(EdgesOf(g))

\* ------------------------------------------------------ Transfer normaliser
\* amount = raw / Math.pow(10, token_decimals), in units of 10^-MaxDecimals,
\* with (mutant) the division by the decimals left out
RawAmount(rec) == rec.amount * Pow10(MaxDecimals)

Amount(rec) == rec.amount * Pow10(MaxDecimals - rec.token_decimals)

\* amount >= minAmount, with (mutant) the filter left to the endpoint
AnyAmount(amount, minAmount) == TRUE

AmountQualifies(amount, minAmount) == amount >= minAmount

\* `${from}-${to}-${block_time}`
TxKey(from, to, time) == <<from, "-", to, "-", time>>

\* (mutant) the direction is taken from the other query
EdgeOtherType(to, amount, time, type) ==
    [to |-> to, amount |-> amount, timestamp |-> time,
     type |-> IF type = "in" THEN "out" ELSE IF type = "out" THEN "in" ELSE type]

\* the object pushed for a record (formattedTime is derived from timestamp)
Edge(to, amount, time, type) ==
    [to |-> to, amount |-> amount, timestamp |-> time, type |-> type]

\* -------------------------------------------------------- Depth classifier
\* addressDepth.get(a) || 0
DepthOr0(depths, a) == IF a \in DOMAIN depths THEN depths[a] ELSE 0

\* the address an edge can give a depth to, and the address it reads
Defined(from, edge) == IF edge.type = "in" THEN from ELSE edge.to
Reference(from, edge) == IF edge.type = "in" THEN edge.to ELSE from

\* addressDepth.set(k, v)
SetDepth(depths, k, v) == [a \in DOMAIN depths \cup {k} |-> IF a = k THEN v ELSE depths[a]]

\* (mutant) the has() test left out: the last edge wins
ClassifyEdgeLastWins(depths, from, edge) ==
    IF edge.type = "in"
    THEN SetDepth(depths, from, DepthOr0(depths, edge.to) + 1)
    ELSE SetDepth(depths, edge.to, DepthOr0(depths, from) - 1)

\* (mutant) an edge whose reference has no depth is passed over
ClassifyEdgeSkipUnset(depths, from, edge) ==
    IF edge.type = "in"
    THEN IF from \notin DOMAIN depths /\ edge.to \in DOMAIN depths
         THEN SetDepth(depths, from, depths[edge.to] + 1)
         ELSE depths
    ELSE IF edge.to \notin DOMAIN depths /\ from \in DOMAIN depths
         THEN SetDepth(depths, edge.to, depths[from] - 1)
         ELSE depths

\* the body of edges.forEach
ClassifyEdge(depths, from, edge) ==
    IF edge.type = "in"
    THEN IF from \notin DOMAIN depths
         THEN SetDepth(depths, from, DepthOr0(depths, edge.to) + 1)
         ELSE depths
    ELSE IF edge.to \notin DOMAIN depths
         THEN SetDepth(depths, edge.to, DepthOr0(depths, from) - 1)
         ELSE depths

\* the edges in the order `for (const [from, edges] of graph)` meets them
RECURSIVE EdgeList(_)
EdgeList(g) ==
    IF g = <<>> THEN <<>>
    ELSE [j \in 1..Len(g[1].edges) |-> [from |-> g[1].key, edge |-> g[1].edges[j]]]
         \o EdgeList(Tail(g))

RECURSIVE ClassifyFrom(_, _)
ClassifyFrom(depths, es) ==
    IF es = <<>> THEN depths
    ELSE ClassifyFrom(ClassifyEdge(depths, es[1].from, es[1].edge), Tail(es))

\* one run of the classification loop
ClassifyPass(graph, depths) == ClassifyFrom(depths, EdgeList(graph))

RECURSIVE ClassifyTimes(_, _, _)
ClassifyTimes(graph, depths, n) ==
    IF n = 0 THEN depths
    ELSE ClassifyTimes(graph, ClassifyPass(graph, depths), n - 1)

\* addressDepth.set(address, 0)
RootDepth(address) == [a \in {address} |-> 0]

\* the Map the entry point has built when it returns `graph`
AddressDepths(graph, address) == ClassifyTimes(graph, RootDepth(address), NumPasses)

\* ------------------------------------------------------------------- state
Procs == {"t1", "t2"}

VARIABLES
    tpc,               \* per traversal: "idle", "running", "done"
    param,             \* per traversal: [root, minAmount, maxDepth]
    stack,             \* per traversal: call stack of getRelatedTransactions
    visitedAddresses,  \* per traversal: Set<string> created by the entry point
    processedTx,       \* per traversal: Set<string> of transaction keys
    result,            \* per traversal: the Map returned to the caller
    apiCallCount,      \* module-level counter (let apiCallCount)
    calls,             \* history, per traversal: the callSolscanAPI calls
    wire,              \* history: requests sent to the endpoint, fetcher steps
    batch,             \* state of one getTransactionGraph call
    cls,               \* one depth-classification pass, edge by edge
    http               \* one POST /api/analyze request

vars == <<tpc, param, stack, visitedAddresses, processedTx, result,
          apiCallCount, calls, wire, batch, cls, http>>

travVars == <<tpc, param, stack, visitedAddresses, processedTx, result, calls>>

NoParam == [root |-> "A", minAmount |-> 0, maxDepth |-> 0]

\* (mutant) the recursive call passes depth instead of depth + 1
NewFrameSameDepth(address, depth) ==
    [address |-> address, depth |-> IF depth = 0 THEN 0 ELSE depth - 1,
     pc |-> "enter", inResponse |-> NoResponse, outResponse |-> NoResponse,
     transactionGraph |-> EmptyMap]

\* the locals of one activation of getRelatedTransactions
NewFrame(address, depth) ==
    [address |-> address, depth |-> depth, pc |-> "enter",
     inResponse |-> NoResponse, outResponse |-> NoResponse,
     transactionGraph |-> EmptyMap]

Top(p) == stack[p][Len(stack[p])]

SetTop(p, f) == [stack EXCEPT ![p] = [@ EXCEPT ![Len(stack[p])] = f]]

IdleBatch ==
    [pc |-> "idle", addresses |-> <<>>, pending |-> {}, maps |-> <<>>,
     merged |-> EmptyMap, responses |-> <<>>, order |-> <<>>]

\* a Map<string, number>: a function from the addresses that have a depth
NoDepths == [a \in {} |-> 0]

IdleCls == [pc |-> "idle", graph |-> EmptyMap, root |-> "A", pos |-> 0,
            depths |-> NoDepths]

IdleHttp == [pc |-> "idle", body |-> <<>>, status |-> 0]

\* the parts of the state that a traversal or a batch query starts from
Quiet ==
    /\ tpc = [p \in Procs |-> "idle"]
    /\ param = [p \in Procs |-> NoParam]
    /\ stack = [p \in Procs |-> <<>>]
    /\ visitedAddresses = [p \in Procs |-> {}]
    /\ processedTx = [p \in Procs |-> {}]
    /\ result = [p \in Procs |-> EmptyMap]
    /\ calls = [p \in Procs |-> <<>>]
    /\ wire = [requests |-> <<>>, delays |-> 0, counted |-> 0]

Init ==
    /\ Quiet
    /\ apiCallCount \in 0..MaxPriorCalls
    /\ batch = IdleBatch
    /\ cls = IdleCls
    /\ http = IdleHttp

\* ------------------------------------------------------- Rate-limited fetcher
\* (mutant) the call is logged but not counted
FetcherLogOnly(p, address, flow, depth) ==
    /\ apiCallCount' = apiCallCount
    /\ calls' = [calls EXCEPT ![p] =
                    Append(@, [address |-> address, flow |-> flow,
                               depth |-> depth, resp |-> NoResponse])]
    /\ wire' = wire

\* (mutant) both calls of an address are started together, Promise.all style
FetcherCountBoth(p, address, flow, depth) ==
    /\ apiCallCount' = apiCallCount + 1
    /\ calls' = [calls EXCEPT ![p] =
                    @ \o <<[address |-> address, flow |-> "in",
                             depth |-> depth, resp |-> NoResponse],
                           [address |-> address, flow |-> "out",
                             depth |-> depth, resp |-> NoResponse]>>]
    /\ wire' = [wire EXCEPT !.counted = @ + 1]

\* callSolscanAPI up to its await: apiCallCount++ and the log line
FetcherCount(p, address, flow, depth) ==
    /\ apiCallCount' = apiCallCount + 1
    /\ calls' = [calls EXCEPT ![p] =
                    Append(@, [address |-> address, flow |-> flow,
                               depth |-> depth, resp |-> NoResponse])]
    /\ wire' = [wire EXCEPT !.counted = @ + 1]

\* the response of the call in progress is written to the history
Answered(p, r) ==
    [calls EXCEPT ![p] = [@ EXCEPT ![Len(calls[p])].resp = r]]

\* callSolscanAPI after `await delay(API_DELAY)`: axios.get is issued
FetcherDelay(p) ==
    /\ tpc[p] = "running"
    /\ Top(p).pc \in {"inDelay", "outDelay"}
    /\ LET f == Top(p)
           flow == IF f.pc = "inDelay" THEN "in" ELSE "out"
       IN /\ wire' = [wire EXCEPT
                        !.delays = @ + 1,
                        !.requests = Append(@, [address |-> f.address,
                                                flow |-> flow,
                                                by |-> "explorer"])]
          /\ stack' = SetTop(p, [f EXCEPT !.pc =
                        IF flow = "in" THEN "inRequest" ELSE "outRequest"])
    /\ UNCHANGED <<tpc, param, visitedAddresses, processedTx, result,
                   apiCallCount, calls, batch>>
    /\ UNCHANGED <<cls, http>>

\* ------------------------------------------------ Recursive relation explorer
\* getAddressRelationGraph up to the call of getRelatedTransactions:
\* (mutant) the entry point without `apiCallCount = 0`
StartNoReset(p, root, minAmount, maxDepth) ==
    /\ tpc[p] = "idle"
    /\ tpc' = [tpc EXCEPT ![p] = "running"]
    /\ param' = [param EXCEPT ![p] =
                    [root |-> root, minAmount |-> minAmount, maxDepth |-> maxDepth]]
    /\ stack' = [stack EXCEPT ![p] = <<NewFrame(root, 0)>>]
    /\ visitedAddresses' = [visitedAddresses EXCEPT ![p] = {}]
    /\ processedTx' = [processedTx EXCEPT ![p] = {}]
    /\ UNCHANGED <<result, calls, wire, batch, apiCallCount>>
    /\ UNCHANGED <<cls, http>>

\* apiCallCount = 0; getRelatedTransactions(address, minAmount, 0, 2, new Set())
\* (processedTx takes its default, a new Set).  maxDepth is a parameter of
\* getRelatedTransactions; the entry point passes DefaultMaxDepth.
Start(p, root, minAmount, maxDepth) ==
    /\ tpc[p] = "idle"
    /\ tpc' = [tpc EXCEPT ![p] = "running"]
    /\ param' = [param EXCEPT ![p] =
                    [root |-> root, minAmount |-> minAmount, maxDepth |-> maxDepth]]
    /\ apiCallCount' = 0
    /\ stack' = [stack EXCEPT ![p] = <<NewFrame(root, 0)>>]
    /\ visitedAddresses' = [visitedAddresses EXCEPT ![p] = {}]
    /\ processedTx' = [processedTx EXCEPT ![p] = {}]
    /\ UNCHANGED <<result, calls, wire, batch>>
    /\ UNCHANGED <<cls, http>>

\* visitedAddresses.has(address), with (mutant) the check left out
NeverVisited(visited, address) == FALSE

AlreadyVisited(visited, address) == address \in visited

\* depth >= maxDepth, with (mutant) an off-by-one comparison
DepthExceeded(depth, maxDepth) == depth > maxDepth

DepthExhausted(depth, maxDepth) == depth >= maxDepth

\* (mutant) one visited set for the whole module
VisitedShared(p) == UNION {visitedAddresses[q] : q \in Procs}

\* the visitedAddresses parameter: the Set created by the entry point of this
\* traversal and handed down through every recursive call
VisitedOf(p) == visitedAddresses[p]

\* getRelatedTransactions from its first line to the first await: the visited
\* check, the depth check, and the synchronous part of the inbound call
Enter(p) ==
    /\ tpc[p] = "running"
    /\ Top(p).pc = "enter"
    /\ LET f == Top(p) IN
        IF AlreadyVisited(VisitedOf(p), f.address)
        THEN /\ stack' = SetTop(p, [f EXCEPT !.pc = "return"])
             /\ UNCHANGED <<visitedAddresses, apiCallCount, calls, wire>>
        ELSE /\ visitedAddresses' =
                    [visitedAddresses EXCEPT ![p] = @ \cup {f.address}]
             /\ IF DepthExhausted(f.depth, param[p].maxDepth)
                THEN /\ stack' = SetTop(p, [f EXCEPT !.pc = "return"])
                     /\ UNCHANGED <<apiCallCount, calls, wire>>
                ELSE /\ FetcherCount(p, f.address, "in", f.depth)
                     /\ stack' = SetTop(p, [f EXCEPT !.pc = "inDelay"])
    /\ UNCHANGED <<tpc, param, processedTx, result, batch>>
    /\ UNCHANGED <<cls, http>>

\* the catch block of getRelatedTransactions: the rejection is caught in the
\* activation that issued the call, which goes on to `return transactionGraph`;
\* (mutant) the rejection escapes to the catch block of the awaiting caller
CaughtByCaller(stk) ==
    IF Len(stk) = 1
    THEN [stk EXCEPT ![1].pc = "return"]
    ELSE [SubSeq(stk, 1, Len(stk) - 1) EXCEPT ![Len(stk) - 1].pc = "return"]

\* (mutant) no catch block: the rejection leaves the activation unfinished
Uncaught(stk) == [stk EXCEPT ![Len(stk)].pc = "uncaught"]

OnThrow(stk) == [stk EXCEPT ![Len(stk)].pc = "return"]

\* (mutant) a body of unexpected shape is an error, like a rejection
RejectedOrMalformed(r) == r.kind = "throw" \/ (r.success /\ ~r.isArray)
                              \/ (r.success /\ r.isArray /\ r.data = <<>>)

\* `await callSolscanAPI(...)` throws: only when axios.get rejects
Rejected(r) == r.kind = "throw"

\* the inbound request settles: axios rejects (control goes to the catch
\* block, which returns transactionGraph) or inResponse is assigned and the
\* explorer suspends in `await delay(API_DELAY)`
InResponse(p, r) ==
    /\ tpc[p] = "running"
    /\ Top(p).pc = "inRequest"
    /\ r \in Responses(Top(p).address, "in")
    /\ stack' = IF Rejected(r)
                THEN [stack EXCEPT ![p] = OnThrow(@)]
                ELSE SetTop(p, [Top(p) EXCEPT !.pc = "gapDelay", !.inResponse = r])
    /\ calls' = Answered(p, r)
    /\ UNCHANGED <<tpc, param, visitedAddresses, processedTx, result,
                   apiCallCount, wire, batch>>
    /\ UNCHANGED <<cls, http>>

\* the delay between the two calls is over: synchronous part of the outbound call
GapDelay(p) ==
    /\ tpc[p] = "running"
    /\ Top(p).pc = "gapDelay"
    /\ FetcherCount(p, Top(p).address, "out", Top(p).depth)
    /\ stack' = SetTop(p, [Top(p) EXCEPT !.pc = "outDelay"])
    /\ UNCHANGED <<tpc, param, visitedAddresses, processedTx, result, batch>>
    /\ UNCHANGED <<cls, http>>

\* the outbound request settles
OutResponse(p, r) ==
    /\ tpc[p] = "running"
    /\ Top(p).pc = "outRequest"
    /\ r \in Responses(Top(p).address, "out")
    /\ stack' = IF Rejected(r)
                THEN [stack EXCEPT ![p] = OnThrow(@)]
                ELSE SetTop(p, [Top(p) EXCEPT !.pc = "procIn", !.outResponse = r])
    /\ calls' = Answered(p, r)
    /\ UNCHANGED <<tpc, param, visitedAddresses, processedTx, result,
                   apiCallCount, wire, batch>>
    /\ UNCHANGED <<cls, http>>

\* response.data?.success && Array.isArray(response.data.data) && data[0]
HasFirst(resp) == resp.success /\ resp.isArray /\ Len(resp.data) > 0

\* (mutant) the last record of the page is taken
LastTx(resp) == resp.data[Len(resp.data)]

\* const firstTx = transactions[0]
FirstTx(resp) == resp.data[1]

\* depth < maxDepth - 1, with (mutant) the bound of the entry check
MayRecurseToBound(depth, maxDepth) == depth < maxDepth

MayRecurse(depth, maxDepth) == depth < maxDepth - 1

\* !processedTx.has(txKey), with (mutant) the test left out
AlwaysNewTx(seen, txKey) == TRUE

IsNewTx(seen, txKey) == txKey \notin seen

\* handling of one direction's response up to the recursive call:
\* the edge is recorded under `from` with counterparty `cp` to descend into
ProcessDirection(p, resp, flow, nextPc, awaitPc) ==
    LET f == Top(p)
        tx == FirstTx(resp)
        amount == Amount(tx)
        from == IF flow = "in" THEN tx.from_address ELSE f.address
        to == IF flow = "in" THEN f.address ELSE tx.to_address
        cp == IF flow = "in" THEN tx.from_address ELSE tx.to_address
        txKey == TxKey(from, to, tx.block_time)
    IN IF HasFirst(resp) /\ AmountQualifies(amount, param[p].minAmount)
          /\ IsNewTx(processedTx[p], txKey)
       THEN /\ processedTx' = [processedTx EXCEPT ![p] = @ \cup {txKey}]
            /\ LET g == PushAll(f.transactionGraph, from,
                                <<Edge(to, amount, tx.block_time, flow)>>)
               IN IF MayRecurse(f.depth, param[p].maxDepth)
                  THEN stack' = [stack EXCEPT ![p] =
                            Append([@ EXCEPT ![Len(stack[p])] =
                                        [f EXCEPT !.pc = awaitPc,
                                                  !.transactionGraph = g]],
                                   NewFrame(cp, f.depth + 1))]
                  ELSE stack' = SetTop(p, [f EXCEPT !.pc = nextPc,
                                                    !.transactionGraph = g])
       ELSE /\ stack' = SetTop(p, [f EXCEPT !.pc = nextPc])
            /\ UNCHANGED processedTx

\* lines 260-292: the inbound response
ProcessIn(p) ==
    /\ tpc[p] = "running"
    /\ Top(p).pc = "procIn"
    /\ ProcessDirection(p, Top(p).inResponse, "in", "procOut", "awaitIn")
    /\ UNCHANGED <<tpc, param, visitedAddresses, result, apiCallCount,
                   calls, wire, batch>>
    /\ UNCHANGED <<cls, http>>

\* lines 307-339: the outbound response
ProcessOut(p) ==
    /\ tpc[p] = "running"
    /\ Top(p).pc = "procOut"
    /\ ProcessDirection(p, Top(p).outResponse, "out", "return", "awaitOut")
    /\ UNCHANGED <<tpc, param, visitedAddresses, result, apiCallCount,
                   calls, wire, batch>>
    /\ UNCHANGED <<cls, http>>

\* `return transactionGraph` (or `return new Map()`): the awaiting caller
\* merges the partial graph and goes on; the outermost return hands the graph
\* to getAddressRelationGraph, which returns it
Return(p) ==
    /\ tpc[p] = "running"
    /\ Top(p).pc = "return"
    /\ LET n == Len(stack[p])
           g == Top(p).transactionGraph
       IN IF n = 1
          THEN /\ stack' = [stack EXCEPT ![p] = <<>>]
               /\ result' = [result EXCEPT ![p] = g]
               /\ tpc' = [tpc EXCEPT ![p] = "done"]
          ELSE LET parent == stack[p][n - 1] IN
               /\ stack' = [stack EXCEPT ![p] =
                    Append(SubSeq(@, 1, n - 2),
                           [parent EXCEPT
                              !.transactionGraph = MergeInto(@, g),
                              !.pc = IF @ = "awaitIn" THEN "procOut"
                                                      ELSE "return"])]
               /\ UNCHANGED <<result, tpc>>
    /\ UNCHANGED <<param, visitedAddresses, processedTx, apiCallCount,
                   calls, wire, batch>>
    /\ UNCHANGED <<cls, http>>

\* ------------------------------------------------- Batch shallow-graph query
\* lists of distinct seed addresses (the top holders)
Seeds ==
    {sq \in UNION {[1..n -> Addr] : n \in 0..MaxSeeds} :
        \A i, j \in 1..Len(sq) : i # j => sq[i] # sq[j]}

\* (mutant) the edge is stored under its receiver
LatestMapByReceiver(resp) ==
    IF resp.kind = "ok" /\ resp.success /\ resp.isArray /\ Len(resp.data) > 0
    THEN LET firstTx == resp.data[1] IN
         PushAll(EmptyMap, firstTx.to_address,
                 <<Edge(firstTx.from_address, Amount(firstTx),
                        firstTx.block_time, "none")>>)
    ELSE EmptyMap

\* getLatestTransaction after its request settled: the adjacency list it
\* returns (the catch block and every failed test leave it empty)
LatestMap(resp) ==
    IF resp.kind = "ok" /\ resp.success /\ resp.isArray /\ Len(resp.data) > 0
    THEN LET firstTx == resp.data[1] IN
         PushAll(EmptyMap, firstTx.from_address,
                 <<Edge(firstTx.to_address, Amount(firstTx),
                        firstTx.block_time, "none")>>)
    ELSE EmptyMap

RECURSIVE MergeFromReversed(_, _)
RECURSIVE MergeFrom(_, _)
\* (mutant) the maps are merged last to first
MergeFromReversed(acc, maps) ==
    IF maps = <<>> THEN acc
    ELSE MergeInto(MergeFromReversed(acc, Tail(maps)), maps[1])

\* mergeMaps: for (const map of maps) for (const [from, edges] of map) ...
MergeFrom(acc, maps) ==
    IF maps = <<>> THEN acc ELSE MergeFrom(MergeInto(acc, maps[1]), Tail(maps))

mergeMaps(maps) == MergeFrom(EmptyMap, maps)

\* getTransactionGraph up to `await Promise.all`: addresses.map starts every
\* getLatestTransaction, each of which issues its axios.get at once
StartBatch(addresses) ==
    /\ batch.pc = "idle"
    /\ \A p \in Procs : tpc[p] = "idle"
    /\ batch' = [pc |-> "fetching", addresses |-> addresses,
                 pending |-> 1..Len(addresses),
                 maps |-> [i \in 1..Len(addresses) |-> EmptyMap],
                 merged |-> EmptyMap,
                 responses |-> [i \in 1..Len(addresses) |-> NoResponse],
                 order |-> <<>>]
    /\ wire' = [wire EXCEPT !.requests = @ \o
                    [i \in 1..Len(addresses) |->
                        [address |-> addresses[i], flow |-> "in",
                         by |-> "batch"]]]
    /\ UNCHANGED <<travVars, apiCallCount>>
    /\ UNCHANGED <<cls, http>>

\* Promise.all keeps the value of the i-th promise at index i, with (mutant)
\* the values kept in the order the promises settle
StoreByArrival(maps, i, m, order) == [maps EXCEPT ![Len(order) + 1] = m]

StoreMap(maps, i, m, order) == [maps EXCEPT ![i] = m]

\* the request of the i-th getLatestTransaction settles, in any order
BatchResponse(i, r) ==
    /\ batch.pc = "fetching"
    /\ i \in batch.pending
    /\ r \in Responses(batch.addresses[i], "in")
    /\ batch' = [batch EXCEPT !.pending = @ \ {i},
                              !.maps = StoreMap(@, i, LatestMap(r), batch.order),
                              !.responses = [@ EXCEPT ![i] = r],
                              !.order = Append(@, i)]
    /\ UNCHANGED <<travVars, apiCallCount, wire>>
    /\ UNCHANGED <<cls, http>>

\* (mutant) getLatestTransaction without its catch block: a rejection makes
\* Promise.all reject and the catch block of getTransactionGraph returns
\* new Map()
BatchAllOrNothing(maps, responses) ==
    IF \E i \in 1..Len(responses) : responses[i].kind = "throw"
    THEN EmptyMap ELSE mergeMaps(maps)

\* what getTransactionGraph returns: every getLatestTransaction resolves with
\* its adjacency list, so Promise.all resolves and the lists are merged
BatchResult(maps, responses) == mergeMaps(maps)

\* Promise.all resolved: return mergeMaps(maps)
BatchMerge ==
    /\ batch.pc = "fetching"
    /\ batch.pending = {}
    /\ batch' = [batch EXCEPT !.pc = "done", !.merged = BatchResult(batch.maps, batch.responses)]
    /\ UNCHANGED <<travVars, apiCallCount, wire>>
    /\ UNCHANGED <<cls, http>>

\* ------------------------------------------------------------ specification
\* one request at a time: a single top-level traversal
Solo == "t1"

Next ==
    \/ \E root \in Roots, m \in MinAmounts, d \in 0..MaxDepthBound :
            batch.pc = "idle" /\ Start(Solo, root, m, d)
    \/ Enter(Solo)
    \/ FetcherDelay(Solo)
    \/ \E r \in CoreResponses("in") : InResponse(Solo, r)
    \/ GapDelay(Solo)
    \/ \E r \in CoreResponses("out") : OutResponse(Solo, r)
    \/ ProcessIn(Solo)
    \/ ProcessOut(Solo)
    \/ Return(Solo)
    \/ \E addresses \in Seeds : StartBatch(addresses)
    \/ \E i \in 1..MaxSeeds, r \in CoreResponses("in") : BatchResponse(i, r)
    \/ BatchMerge

Spec == Init /\ [][Next]_vars

\* The event loop runs every continuation that is ready, and every request
\* is assumed to settle (resolve or reject).
FairSpec == Spec /\ WF_vars(Next)

\* ------------------------------------------- the entry point as exported
\* One getAddressRelationGraph call: maxDepth is DefaultMaxDepth, and the
\* endpoint answers with any response over the whole ledger, pages of
\* several records included.
EntryNext ==
    \/ \E root \in Roots, m \in MinAmounts : Start(Solo, root, m, DefaultMaxDepth)
    \/ Enter(Solo)
    \/ FetcherDelay(Solo)
    \/ \E r \in AllResponses("in") : InResponse(Solo, r)
    \/ GapDelay(Solo)
    \/ \E r \in AllResponses("out") : OutResponse(Solo, r)
    \/ ProcessIn(Solo)
    \/ ProcessOut(Solo)
    \/ Return(Solo)

EntrySpec == Init /\ [][EntryNext]_vars

\* ---------------------------------------------- two overlapping requests
\* Two top-level traversals in one process (two POST requests that overlap):
\* their steps interleave at every await.  Both ask for the default depth or
\* less, and the ledger answers from a small part of it.
DuoDepths == {1, DefaultMaxDepth}

DuoLedger == {Rec("A", "B", 50, 0, 1), Rec("B", "A", 50, 0, 2)}

DuoResponses(flow) ==
    {Throw, Ok(TRUE, TRUE, <<>>)}
    \cup {Ok(TRUE, TRUE, <<r>>) : r \in DuoLedger}

DuoMinAmount == Sol(10)

DuoInit ==
    /\ Quiet
    /\ apiCallCount = 0
    /\ batch = IdleBatch
    /\ cls = IdleCls
    /\ http = IdleHttp

DuoNext ==
    \E p \in Procs :
        \/ \E root \in Roots, d \in DuoDepths : Start(p, root, DuoMinAmount, d)
        \/ Enter(p)
        \/ FetcherDelay(p)
        \/ \E r \in DuoResponses("in") : InResponse(p, r)
        \/ GapDelay(p)
        \/ \E r \in DuoResponses("out") : OutResponse(p, r)
        \/ ProcessIn(p)
        \/ ProcessOut(p)
        \/ Return(p)

DuoSpec == DuoInit /\ [][DuoNext]_vars

\* ------------------------------------------- mergeMaps as a pure function
\* the adjacency lists mergeMaps is applied to: those getLatestTransaction
\* can return for a seed address
LatestMaps == {LatestMap(r) : r \in AllResponses("in")}

MapLists == UNION {[1..n -> LatestMaps] : n \in 0..MaxSeeds}

MergeInit ==
    /\ Quiet
    /\ apiCallCount = 0
    /\ cls = IdleCls
    /\ http = IdleHttp
    /\ \E maps \in MapLists :
         batch = [pc |-> "fetching", addresses |-> <<>>, pending |-> {},
                  maps |-> maps, merged |-> EmptyMap,
                  responses |-> <<>>, order |-> <<>>]

MergeSpec == MergeInit /\ [][BatchMerge]_vars

\* ------------------------------------- the classification pass, edge by edge
GraphAddr == {"A", "B", "C"}

GraphEdge == [from : GraphAddr, to : GraphAddr, type : Flows]

\* the graph that holds the given edges, appended in the given order
RECURSIVE GraphOf(_)
GraphOf(es) ==
    IF es = <<>> THEN EmptyMap
    ELSE LET e == es[Len(es)] IN
         PushAll(GraphOf(SubSeq(es, 1, Len(es) - 1)), e.from,
                 <<Edge(e.to, Sol(10), 1, e.type)>>)

Graphs == {GraphOf(es) : es \in UNION {[1..n -> GraphEdge] : n \in 0..MaxGraphEdges}}

ClassInit ==
    /\ Quiet
    /\ apiCallCount = 0
    /\ batch = IdleBatch
    /\ http = IdleHttp
    /\ \E g \in Graphs, root \in Roots :
         cls = [pc |-> "pass1", graph |-> g, root |-> root, pos |-> 0,
                depths |-> RootDepth(root)]

\* the callback of edges.forEach runs for the next edge
ClassStep ==
    /\ cls.pc = "pass1"
    /\ cls.pos < Len(EdgeList(cls.graph))
    /\ LET e == EdgeList(cls.graph)[cls.pos + 1] IN
       cls' = [cls EXCEPT !.pos = @ + 1,
                          !.depths = ClassifyEdge(@, e.from, e.edge)]
    /\ UNCHANGED <<travVars, apiCallCount, wire, batch, http>>

\* the first loop is over: the remaining runs of the loop
ClassRest ==
    /\ cls.pc = "pass1"
    /\ cls.pos = Len(EdgeList(cls.graph))
    /\ cls' = [cls EXCEPT !.pc = "done",
                          !.depths = ClassifyTimes(cls.graph, @, NumPasses - 1)]
    /\ UNCHANGED <<travVars, apiCallCount, wire, batch, http>>

ClassNext == ClassStep \/ ClassRest

ClassSpec == ClassInit /\ [][ClassNext]_vars

\* ---------------------------------------------------- POST /api/analyze
\* A string is kept as its length and whether all its characters are in the
\* base58 alphabet of the route's pattern; Absent is a missing field.
Absent == [kind |-> "absent", len |-> 0, base58 |-> TRUE]
Str(len, base58) == [kind |-> "string", len |-> len, base58 |-> base58]

FieldValues ==
    {Absent, Str(0, TRUE)}
    \cup {Str(n, b) : n \in {MinAddressLen - 1, MinAddressLen, MaxAddressLen,
                             MaxAddressLen + 1},
                      b \in BOOLEAN}

\* the request bodies: JSON objects with or without the fields address and
\* tokenAddress, and a body that is not JSON
Bodies == [json : BOOLEAN, address : FieldValues, tokenAddress : FieldValues]

\* !address
Falsy(v) == v.kind = "absent" \/ v.len = 0

\* /^[1-9A-HJ-NP-Za-km-z]{32,44}$/.test(v)
WellFormed(v) ==
    v.kind = "string" /\ v.base58 /\ v.len >= MinAddressLen /\ v.len <= MaxAddressLen

RouteInit ==
    /\ Quiet
    /\ apiCallCount = 0
    /\ batch = IdleBatch
    /\ cls = IdleCls
    /\ \E b \in Bodies : http = [pc |-> "received", body |-> b, status |-> 0]

\* POST up to `await analyzeTokenHoldersRelatedAddresses(address)`
RouteValidate ==
    /\ http.pc = "received"
    /\ http' =
         IF ~http.body.json THEN [http EXCEPT !.pc = "responded", !.status = 500]
         ELSE IF Falsy(http.body.address) \/ ~WellFormed(http.body.address)
              THEN [http EXCEPT !.pc = "responded", !.status = 400]
              ELSE [http EXCEPT !.pc = "analyzing"]
    /\ UNCHANGED <<travVars, apiCallCount, wire, batch, cls>>

\* the analysis resolves: NextResponse.json(serializedResult)
RouteResult ==
    /\ http.pc = "analyzing"
    /\ http' = [http EXCEPT !.pc = "responded", !.status = 200]
    /\ UNCHANGED <<travVars, apiCallCount, wire, batch, cls>>

\* the analysis rejects: the catch block answers 500
RouteError ==
    /\ http.pc = "analyzing"
    /\ http' = [http EXCEPT !.pc = "responded", !.status = 500]
    /\ UNCHANGED <<travVars, apiCallCount, wire, batch, cls>>

RouteNext == RouteValidate \/ RouteResult \/ RouteError

RouteSpec == RouteInit /\ [][RouteNext]_vars

\* ------------------------------------------------------------------ claims
Running(p) == tpc[p] = "running"
Done(p) == tpc[p] = "done"

\* addressDepth of a completed getAddressRelationGraph: the loops between
\* the return of getRelatedTransactions and `return graph` are synchronous
\* and write to this local Map only
addressDepth(p) == AddressDepths(result[p], param[p].root)

CallIdx(p) == 1..Len(calls[p])

\* the key of an edge stored under `from`
KeyOf(e) == TxKey(e.from, e.edge.to, e.edge.timestamp)

ResultKeys(p) == {KeyOf(e) : e \in EdgesOf(result[p])}

\* addresses whose inbound call has been issued
Expanded(p) == {calls[p][i].address : i \in {j \in CallIdx(p) : calls[p][j].flow = "in"}}

\* C1: in a traversal with maxDepth = d, every Fetcher call is issued by an
\* activation whose recursion depth is below d.
C1_DepthBound ==
    \A p \in Procs : \A i \in CallIdx(p) : calls[p][i].depth < param[p].maxDepth

\* a completed traversal that issued calls at the deepest allowed level, d - 1 > 0
C1_Witness ==
    /\ Done(Solo)
    /\ \E i \in CallIdx(Solo) :
          /\ calls[Solo][i].depth = param[Solo].maxDepth - 1
          /\ calls[Solo][i].depth >= 1

\* C2: the Fetcher is invoked at most once per (address, direction), failed
\* calls included, so each address is expanded at most once; and an
\* activation entered for an address that is already visited returns an empty
\* graph without a Fetcher call and without changing the visited set or the
\* transaction-key set.
C2_OncePerPair ==
    \A p \in Procs : \A i, j \in CallIdx(p) :
        (calls[p][i].address = calls[p][j].address
            /\ calls[p][i].flow = calls[p][j].flow) => i = j

C2_RevisitStep ==
    \A p \in Procs :
        (Running(p) /\ Top(p).pc = "enter"
            /\ Top(p).address \in visitedAddresses[p]
            /\ stack'[p] # stack[p])
        => /\ Len(stack'[p]) = Len(stack[p])
           /\ stack'[p][Len(stack[p])].pc = "return"
           /\ stack'[p][Len(stack[p])].transactionGraph = EmptyMap
           /\ calls' = calls
           /\ apiCallCount' = apiCallCount
           /\ wire' = wire
           /\ visitedAddresses' = visitedAddresses
           /\ processedTx' = processedTx

C2_NoRevisit == [](C2_OncePerPair) /\ [][C2_RevisitStep]_vars

\* the cycle A -> B -> A: the activation for A entered from B has returned
C2_Witness ==
    /\ Running(Solo)
    /\ Len(stack[Solo]) = 3
    /\ stack[Solo][1].address = "A"
    /\ stack[Solo][2].address = "B"
    /\ stack[Solo][3].address = "A"
    /\ stack[Solo][3].pc = "return"

\* C3: in the graph returned by a completed traversal no two edges have the
\* same (origin, to, timestamp).
C3_NoDuplicateEdge ==
    \A p \in Procs :
        Done(p) => \A e1, e2 \in EdgesOf(result[p]) :
                      KeyOf(e1) = KeyOf(e2) => e1.pos = e2.pos

\* the first record of call i, when the call returned one
FirstOf(p, i) == calls[p][i].resp.data[1]

GotRecord(p, i) == calls[p][i].resp.kind = "ok" /\ HasFirst(calls[p][i].resp)

\* one transfer came back from the outbound query of its sender and from the
\* inbound query of its receiver, both at or above minAmount
C3_Witness ==
    /\ Done(Solo)
    /\ \E i, j \in CallIdx(Solo) :
          /\ calls[Solo][i].flow = "out" /\ calls[Solo][j].flow = "in"
          /\ GotRecord(Solo, i) /\ GotRecord(Solo, j)
          /\ FirstOf(Solo, i) = FirstOf(Solo, j)
          /\ calls[Solo][i].address # calls[Solo][j].address
          /\ AmountQualifies(Amount(FirstOf(Solo, i)), param[Solo].minAmount)
          /\ TxKey(FirstOf(Solo, i).from_address, FirstOf(Solo, i).to_address,
                   FirstOf(Solo, i).block_time) \in ResultKeys(Solo)

\* C4: every edge of the graph returned by a traversal has an amount of at
\* least the minAmount supplied to it.
C4_MinAmount ==
    \A p \in Procs :
        Done(p) => \A e \in EdgesOf(result[p]) : e.edge.amount >= param[p].minAmount

\* a record below minAmount came back at depth 1 and the graph has edges
C4_Witness ==
    /\ Done(Solo)
    /\ result[Solo] # EmptyMap
    /\ \E i \in CallIdx(Solo) :
          /\ calls[Solo][i].depth = 1
          /\ GotRecord(Solo, i)
          /\ Amount(FirstOf(Solo, i)) < param[Solo].minAmount

\* the transaction key call i's first record gets from the explorer
CallKey(p, i) ==
    IF calls[p][i].flow = "in"
    THEN TxKey(FirstOf(p, i).from_address, calls[p][i].address,
               FirstOf(p, i).block_time)
    ELSE TxKey(calls[p][i].address, FirstOf(p, i).to_address,
               FirstOf(p, i).block_time)

\* call i returned a first record at or above minAmount
Qualifying(p, i) ==
    GotRecord(p, i) /\ AmountQualifies(Amount(FirstOf(p, i)), param[p].minAmount)

Failed(p, i) == calls[p][i].resp.kind = "throw"

\* C5 (as claimed): when one of an address's two calls fails, the call for
\* the other direction is still issued and its qualifying first record is
\* still in the graph.
C5_OtherDirectionKept ==
    \A p \in Procs : Done(p) =>
        \A i \in CallIdx(p) :
            /\ (calls[p][i].flow = "in" /\ Failed(p, i))
                => \E j \in CallIdx(p) :
                      /\ calls[p][j].address = calls[p][i].address
                      /\ calls[p][j].flow = "out"
            /\ (calls[p][i].flow = "out" /\ Failed(p, i))
                => \A j \in CallIdx(p) :
                      (calls[p][j].address = calls[p][i].address
                          /\ calls[p][j].flow = "in" /\ Qualifying(p, j))
                      => CallKey(p, j) \in ResultKeys(p)

\* both calls of the address of call i returned (neither was rejected)
FullyFetched(p, i) ==
    \A j \in CallIdx(p) :
        calls[p][j].address = calls[p][i].address => calls[p][j].resp.kind = "ok"

\* C6: a traversal in which a Fetcher call failed still completes, and the
\* graph it returns holds every accepted edge (every recorded transaction
\* key) and the qualifying first record of every address whose own two calls
\* returned, whether it was explored before or after the failure.
C6_GraphKept ==
    \A p \in Procs : Done(p) =>
        /\ processedTx[p] \subseteq ResultKeys(p)
        /\ \A i \in CallIdx(p) :
              (FullyFetched(p, i) /\ Qualifying(p, i))
                  => CallKey(p, i) \in ResultKeys(p)

SomeFailed(p) == \E i \in CallIdx(p) : Failed(p, i)

C6_FailureContained ==
    /\ [](C6_GraphKept)
    /\ \A p \in Procs : (Running(p) /\ SomeFailed(p)) ~> Done(p)

\* a call of a child failed, and the graph holds an edge accepted by the root
\* before it and an edge of the sibling branch explored after it
C6_Witness ==
    /\ Done(Solo)
    /\ \E i, j, k \in CallIdx(Solo) :
          /\ i < j /\ j < k
          /\ calls[Solo][i].depth = 0 /\ Qualifying(Solo, i)
          /\ calls[Solo][j].depth = 1 /\ Failed(Solo, j)
          /\ calls[Solo][k].depth = 1 /\ Qualifying(Solo, k)
          /\ calls[Solo][k].address # calls[Solo][j].address
          /\ CallKey(Solo, i) \in ResultKeys(Solo)
          /\ CallKey(Solo, k) \in ResultKeys(Solo)

\* call i returned, without a first record at or above minAmount
NoQualifying(p, i) == calls[p][i].resp.kind = "ok" /\ ~Qualifying(p, i)

\* C7: when the root's inbound and outbound queries both return no
\* qualifying transfer, the graph is empty, visited = {root} and the call
\* counter is 2.
C7_ScenarioA ==
    \A p \in Procs :
        (/\ Done(p)
         /\ Len(calls[p]) >= 2
         /\ calls[p][1].address = param[p].root
         /\ calls[p][2].address = param[p].root
         /\ NoQualifying(p, 1)
         /\ NoQualifying(p, 2))
        => /\ result[p] = EmptyMap
           /\ visitedAddresses[p] = {param[p].root}
           /\ apiCallCount = 2

\* the root's inbound page starts with a record below minAmount and its
\* outbound page is empty
C7_Witness ==
    /\ Done(Solo)
    /\ Len(calls[Solo]) = 2
    /\ GotRecord(Solo, 1) /\ NoQualifying(Solo, 1)
    /\ calls[Solo][2].resp = Ok(TRUE, TRUE, <<>>)
    /\ apiCallCount = 2

\* the ledger record rec is a transfer of n SOL
Worth(rec, n) == rec.amount = n * Pow10(rec.token_decimals)

\* the ledger of Scenario B was served: A's top outbound transfer is 50 to B,
\* B's is 20 to C, and neither has a qualifying inbound transfer
ScenarioB(p) ==
    /\ Done(p)
    /\ param[p] = [root |-> "A", minAmount |-> Sol(10), maxDepth |-> 2]
    /\ Len(calls[p]) >= 4
    /\ calls[p][1].address = "A" /\ NoQualifying(p, 1)
    /\ calls[p][2].address = "A" /\ GotRecord(p, 2)
    /\ FirstOf(p, 2).to_address = "B" /\ Worth(FirstOf(p, 2), 50)
    /\ calls[p][3].address = "B" /\ NoQualifying(p, 3)
    /\ calls[p][4].address = "B" /\ GotRecord(p, 4)
    /\ FirstOf(p, 4).to_address = "C" /\ Worth(FirstOf(p, 4), 20)

\* C8: in Scenario B the graph is exactly A -> {to B, 50, out} and
\* B -> {to C, 20, out}, and no Fetcher call is issued for C.
C8_ScenarioB ==
    \A p \in Procs :
        ScenarioB(p) =>
            /\ result[p] =
                <<[key |-> "A", edges |->
                      <<Edge("B", Sol(50), FirstOf(p, 2).block_time, "out")>>],
                  [key |-> "B", edges |->
                      <<Edge("C", Sol(20), FirstOf(p, 4).block_time, "out")>>]>>
            /\ \A i \in CallIdx(p) : calls[p][i].address # "C"

\* Scenario B with a record below minAmount first on B's inbound page
C8_Witness ==
    /\ ScenarioB(Solo)
    /\ GotRecord(Solo, 3)
    /\ NumEdges(result[Solo]) = 2

\* the address an edge was found from, and the counterparty it led to
FoundFrom(e) == IF e.edge.type = "in" THEN e.edge.to ELSE e.from
Counterparty(e) == IF e.edge.type = "in" THEN e.from ELSE e.edge.to

\* e was recorded by an activation at depth maxDepth - 1
AtBoundary(p, e) ==
    \E i \in CallIdx(p) :
        /\ calls[p][i].address = FoundFrom(e)
        /\ calls[p][i].depth = param[p].maxDepth - 1

\* C9 (as claimed): the counterparty of an edge recorded at depth d - 1 is in
\* the visited set when the traversal completes.
C9_BoundaryVisited ==
    \A p \in Procs : Done(p) =>
        \A e \in EdgesOf(result[p]) :
            AtBoundary(p, e) => Counterparty(e) \in visitedAddresses[p]

\* C9 (amended): when a traversal completes, the visited set holds the
\* expanded addresses only (and the root when maxDepth is 0): a counterparty
\* found at depth d - 1 and expanded nowhere is not in it.
C9_VisitedIsExpanded ==
    \A p \in Procs : Done(p) =>
        /\ \A a \in visitedAddresses[p] \ Expanded(p) :
              a = param[p].root /\ param[p].maxDepth = 0
        /\ \A e \in EdgesOf(result[p]) :
              (AtBoundary(p, e) /\ Counterparty(e) \notin Expanded(p))
                  => Counterparty(e) \notin visitedAddresses[p]

\* Scenario B completed: C was found from B at depth 1 = d - 1 and is not visited
C9_Witness ==
    /\ ScenarioB(Solo)
    /\ "C" \notin visitedAddresses[Solo]
    /\ \E e \in EdgesOf(result[Solo]) : AtBoundary(Solo, e) /\ Counterparty(e) = "C"

\* C10 (as claimed): every request sent to the endpoint was preceded by its
\* own Fetcher delay step and counted by the Fetcher.
C10_AllThroughFetcher ==
    /\ Len(wire.requests) <= wire.delays
    /\ wire.delays <= wire.counted

\* ----------------------------------------------------------- call counter
\* C11: the call counter is 0 when a top-level traversal starts, grows by
\* exactly 1 with every Fetcher call and by nothing else while the traversal
\* runs, so that it equals the number of Fetcher calls of the traversal while
\* it runs alone and when it completes.
C11_CounterCountsCalls ==
    /\ [](Running(Solo) \/ Done(Solo) => apiCallCount = Len(calls[Solo]))
    /\ [][/\ (tpc[Solo] = "idle" /\ tpc'[Solo] = "running") => apiCallCount' = 0
          /\ Running(Solo) =>
                /\ apiCallCount' - apiCallCount
                       = Len(calls'[Solo]) - Len(calls[Solo])
                /\ apiCallCount' - apiCallCount \in {0, 1}]_vars

\* a traversal of three addresses completed: six calls, counter at six
C11_Witness ==
    /\ Done(Solo)
    /\ Len(calls[Solo]) = 6
    /\ apiCallCount = 6

\* ------------------------------------------------------------ batch query
\* the seed-indexed adjacency lists of a batch, from the responses alone
SeedMaps == [i \in 1..Len(batch.responses) |-> LatestMap(batch.responses[i])]

\* the edges stored under k in the input maps, in input order
RECURSIVE ConcatFor(_, _)
ConcatFor(maps, k) ==
    IF maps = <<>> THEN <<>>
    ELSE (IF Has(maps[1], k) THEN Get(maps[1], k) ELSE <<>>)
         \o ConcatFor(Tail(maps), k)

RECURSIVE TotalEdges(_)
TotalEdges(maps) ==
    IF maps = <<>> THEN 0 ELSE NumEdges(maps[1]) + TotalEdges(Tail(maps))

\* the batch ran over two seeds whose first inbound records have one sender
ScenarioC ==
    /\ batch.pc = "done"
    /\ Len(batch.addresses) = 2
    /\ HasFirst(batch.responses[1])
    /\ HasFirst(batch.responses[2])
    /\ batch.responses[1].data[1].from_address
          = batch.responses[2].data[1].from_address

\* C12: a batch query over seeds [X, Y] whose first inbound transfers both
\* come from Z returns a graph with the single key Z and exactly two edges,
\* one to X and one to Y.
C12_ScenarioC ==
    ScenarioC =>
        LET Z == batch.responses[1].data[1].from_address IN
        /\ Len(batch.merged) = 1
        /\ Keys(batch.merged) = {Z}
        /\ Len(Get(batch.merged, Z)) = 2
        /\ {Get(batch.merged, Z)[j].to : j \in 1..2}
              = {batch.addresses[1], batch.addresses[2]}

\* Scenario C happened, the fetches completing in seed order
C12_Witness ==
    /\ ScenarioC
    /\ batch.order = <<1, 2>>
    /\ batch.addresses[1] # batch.responses[1].data[1].from_address
    /\ batch.addresses[2] # batch.responses[1].data[1].from_address

\* C13: mergeMaps returns a graph whose keys are the origins of the input
\* graphs and in which the edge list of each origin is the concatenation, in
\* input order, of its edge lists in the inputs; the number of edges is the
\* sum of the inputs' and the inputs are not modified.
C13_MergeConcatenates ==
    /\ [](batch.pc = "done" =>
            /\ \A k \in Addr :
                  /\ Has(batch.merged, k) <=>
                        \E i \in 1..Len(batch.maps) : Has(batch.maps[i], k)
                  /\ Has(batch.merged, k) =>
                        Get(batch.merged, k) = ConcatFor(batch.maps, k)
            /\ Keys(batch.merged) \subseteq Addr
            /\ \A i, j \in 1..Len(batch.merged) :
                  batch.merged[i].key = batch.merged[j].key => i = j
            /\ NumEdges(batch.merged) = TotalEdges(batch.maps))
    /\ [][batch.maps' = batch.maps]_vars

\* two graphs with the same origin and different edges were merged
C13_Witness ==
    /\ batch.pc = "done"
    /\ Len(batch.maps) = 2
    /\ \E k \in Addr :
          /\ Has(batch.maps[1], k) /\ Has(batch.maps[2], k)
          /\ Get(batch.maps[1], k) # Get(batch.maps[2], k)
          /\ Get(batch.merged, k) = Get(batch.maps[1], k) \o Get(batch.maps[2], k)

\* C14: the batch query merges only when the fetch of every seed has settled,
\* and what it returns is determined by the responses taken in seed order,
\* whatever the order in which the fetches completed.
C14_MergeAfterAllInSeedOrder ==
    batch.pc = "done" =>
        /\ batch.pending = {}
        /\ Len(batch.order) = Len(batch.addresses)
        /\ \A i \in 1..Len(batch.addresses) : batch.responses[i].kind # "none"
        /\ batch.merged = mergeMaps(SeedMaps)
        /\ \A k \in Keys(batch.merged) :
              Get(batch.merged, k) = ConcatFor(SeedMaps, k)

\* the second fetch completed first, and both edges are under one origin
C14_Witness ==
    /\ ScenarioC
    /\ batch.order = <<2, 1>>
    /\ batch.responses[1].data[1] # batch.responses[2].data[1]

\* ------------------------------------------------------------ termination
\* C15: every top-level traversal that has started completes, whatever the
\* ledger answers (cycles, self-transfers, failures), provided every request
\* settles.
C15_Terminates == Running(Solo) ~> Done(Solo)

\* a traversal completed that met a self-transfer, a cycle back to the root
\* and a failed call
C15_Witness ==
    /\ Done(Solo)
    /\ \E e \in EdgesOf(result[Solo]) : e.from = e.edge.to
    /\ \E i \in CallIdx(Solo) :
          /\ calls[Solo][i].depth > 0
          /\ calls[Solo][i].resp.kind = "ok"
          /\ HasFirst(calls[Solo][i].resp)
          /\ param[Solo].root \in {calls[Solo][i].resp.data[1].from_address,
                                   calls[Solo][i].resp.data[1].to_address}
    /\ \E i \in CallIdx(Solo) : calls[Solo][i].resp.kind = "throw"

\* ------------------------------------------------------- depth classifier
\* the edge the classification pass processes in this step
CurrentEdge == EdgeList(cls.graph)[cls.pos + 1]

\* the pass takes one edge
EdgeStep == cls.pc = "pass1" /\ cls'.pc = "pass1" /\ cls'.pos = cls.pos + 1

\* C16: the root has depth 0; a depth that is assigned never changes; a step
\* assigns at most the address its edge defines, and only if that address has
\* no depth: with a reference of depth d, the origin of an In edge gets d + 1
\* and the `to` of an Out edge gets d - 1.
C16_FirstWriteWins ==
    /\ [](cls.pc # "idle" =>
            cls.root \in DOMAIN cls.depths /\ cls.depths[cls.root] = 0)
    /\ [][/\ \A a \in DOMAIN cls.depths :
                a \in DOMAIN cls'.depths /\ cls'.depths[a] = cls.depths[a]
          /\ EdgeStep =>
                LET e == CurrentEdge
                    d == Defined(e.from, e.edge)
                    r == Reference(e.from, e.edge)
                IN /\ DOMAIN cls'.depths \subseteq DOMAIN cls.depths \cup {d}
                   /\ (d \notin DOMAIN cls.depths /\ r \in DOMAIN cls.depths) =>
                         /\ d \in DOMAIN cls'.depths
                         /\ cls'.depths[d] =
                               cls.depths[r] + (IF e.edge.type = "in" THEN 1 ELSE -1)]_vars

\* two edges that define the same address with different depths were
\* processed: the address has the depth of the first
C16_Witness ==
    /\ cls.pc = "pass1"
    /\ cls.pos = 2
    /\ LET e1 == EdgeList(cls.graph)[1]
           e2 == EdgeList(cls.graph)[2]
       IN /\ e1.edge.type = "in" /\ e2.edge.type = "out"
          /\ e1.edge.to = cls.root /\ e2.from = cls.root
          /\ Defined(e1.from, e1.edge) = Defined(e2.from, e2.edge)
          /\ Defined(e1.from, e1.edge) # cls.root
          /\ cls.depths[Defined(e1.from, e1.edge)] = 1

C18_TokenAddressAccepted ==
    (http.pc = "responded" /\ http.body.json /\ WellFormed(http.body.tokenAddress))
        => http.status # 400

\* -------------------------------------------------- order of the traversal
\* the activation of getRelatedTransactions at stack position i
Frame(p, i) == stack[p][i]

HasOutEdge(f) ==
    \E e \in EdgesOf(f.transactionGraph) :
        e.from = f.address /\ e.edge.type = "out"

\* every transaction recorded so far has its edge in the graph of an
\* activation on the stack
AllEdgesHeld(p) ==
    \A k \in processedTx[p] :
        \E i \in 1..Len(stack[p]) :
            \E e \in EdgesOf(Frame(p, i).transactionGraph) : KeyOf(e) = k

\* C19: an expanded address has no outbound edge before its inbound phase
\* is over; while the sub-traversal of its inbound counterparty runs it is
\* the only activation below; and once that sub-traversal has returned all
\* the edges found so far are merged into the graphs of the activations on
\* the stack, before the outbound edge is appended and the outbound
\* sub-traversal starts.
C19_InboundThenOutbound ==
    Running(Solo) =>
        /\ \A i \in 1..Len(stack[Solo]) :
              LET f == Frame(Solo, i) IN
              /\ f.pc \notin {"awaitOut", "return"} => ~HasOutEdge(f)
              /\ f.pc \in {"awaitIn", "awaitOut"} <=> i < Len(stack[Solo])
              /\ f.pc = "awaitIn" =>
                    \E e \in EdgesOf(f.transactionGraph) :
                        /\ e.edge.type = "in" /\ e.edge.to = f.address
                        /\ e.from = Frame(Solo, i + 1).address
              /\ f.pc = "awaitOut" =>
                    \E e \in EdgesOf(f.transactionGraph) :
                        /\ e.edge.type = "out" /\ e.from = f.address
                        /\ e.edge.to = Frame(Solo, i + 1).address
        /\ AllEdgesHeld(Solo)

\* the root is about to handle its outbound response: its inbound edge and
\* the edges of the finished inbound sub-traversal are in its graph
C19_Witness ==
    /\ Running(Solo)
    /\ Len(stack[Solo]) = 1
    /\ Top(Solo).pc = "procOut"
    /\ NumEdges(Top(Solo).transactionGraph) >= 3
    /\ \E i \in CallIdx(Solo) : calls[Solo][i].depth = 1

\* C20: at most one Fetcher call is in flight; an outbound call follows the
\* returned inbound call of the same address; a call for a counterparty comes
\* after both calls of the address that discovered it have returned.
C20_OneCallInFlight ==
    \A i \in CallIdx(Solo) :
        LET c == calls[Solo][i] IN
        /\ c.resp.kind = "none" => i = Len(calls[Solo])
        /\ c.flow = "out" =>
              /\ i > 1
              /\ calls[Solo][i - 1].flow = "in"
              /\ calls[Solo][i - 1].address = c.address
              /\ calls[Solo][i - 1].depth = c.depth
              /\ calls[Solo][i - 1].resp.kind = "ok"
        /\ (c.flow = "in" /\ c.depth > 0) =>
              \E j \in 1..(i - 2) :
                  /\ calls[Solo][j].depth = c.depth - 1
                  /\ calls[Solo][j].flow = "in"
                  /\ calls[Solo][j].resp.kind = "ok"
                  /\ calls[Solo][j + 1].depth = c.depth - 1
                  /\ calls[Solo][j + 1].flow = "out"
                  /\ calls[Solo][j + 1].address = calls[Solo][j].address
                  /\ calls[Solo][j + 1].resp.kind = "ok"
                  /\ \A k \in (j + 2)..(i - 1) : calls[Solo][k].depth >= c.depth

\* the second counterparty of the root is being queried after the
\* sub-traversal of the first
C20_Witness ==
    /\ Len(calls[Solo]) = 5
    /\ calls[Solo][5].resp.kind = "none"
    /\ calls[Solo][5].depth = 1
    /\ calls[Solo][3].depth = 1
    /\ calls[Solo][3].address # calls[Solo][5].address

\* ------------------------------------------------- overlapping traversals
\* the keys of the qualifying first records of the addresses whose two calls
\* returned, in the calls of traversal p alone
OwnKeys(p) ==
    {CallKey(p, i) : i \in {j \in CallIdx(p) : FullyFetched(p, j) /\ Qualifying(p, j)}}

\* C21: the visited set and the transaction-key set of a traversal follow
\* from its own Fetcher calls only, each traversal expands its root even if
\* another traversal has visited it, and the graph it returns is determined
\* by the responses to its own calls, whatever the other traversal did.
C21_TraversalsIsolated ==
    \A p \in Procs :
        /\ visitedAddresses[p] = Expanded(p)
        /\ processedTx[p] \subseteq
              {CallKey(p, i) : i \in {j \in CallIdx(p) : Qualifying(p, j)}}
        /\ Done(p) =>
              /\ param[p].root \in Expanded(p)
              /\ ResultKeys(p) = OwnKeys(p)
              /\ processedTx[p] = OwnKeys(p)

\* two traversals of the same root are running at once, and each has
\* visited the root and its counterparty and recorded the same transfer
C21_Witness ==
    /\ \A p \in Procs : Running(p) /\ {"A", "B"} \subseteq visitedAddresses[p]
    /\ processedTx["t1"] \cap processedTx["t2"] # {}

\* C26 (as claimed): with two interleaved traversals the counter never
\* decreases while a traversal is running, and when a traversal completes the
\* counter equals the number of Fetcher calls of that traversal.
C26_CounterUnderInterleaving ==
    [][\A p \in Procs :
          /\ (Running(p) /\ tpc'[p] # "idle") => apiCallCount' >= apiCallCount
          /\ (Running(p) /\ tpc'[p] = "done") => apiCallCount' = Len(calls'[p])]_vars

\* ------------------------------------------------ edges and first records
\* the edges of the returned graph that the query (a, flow) accounts for
EdgesFor(p, a, flow) ==
    {e \in EdgesOf(result[p]) : e.edge.type = flow /\ FoundFrom(e) = a}

\* edge e is the first record of call i, stored as its query prescribes
BuiltFrom(p, e, i) ==
    LET c == calls[p][i]
        tx == FirstOf(p, i)
    IN /\ e.edge.type = c.flow
       /\ e.edge.timestamp = tx.block_time
       /\ e.edge.amount = Amount(tx)
       /\ IF c.flow = "in"
          THEN e.from = tx.from_address /\ e.edge.to = c.address
          ELSE e.from = c.address /\ e.edge.to = tx.to_address

\* C22: every edge of the returned graph comes from a call that returned a
\* record, carries the direction of that call, and is stored under the
\* sender: under the record's sender with to = the queried address for an
\* inbound call, under the queried address with to = the record's receiver
\* for an outbound call; so one of its endpoints is an expanded address.
C22_StoredUnderSender ==
    \A p \in Procs : Done(p) =>
        \A e \in EdgesOf(result[p]) :
            /\ e.edge.type \in Flows
            /\ FoundFrom(e) \in Expanded(p)
            /\ \E i \in CallIdx(p) : GotRecord(p, i) /\ BuiltFrom(p, e, i)

\* a graph with an In edge and an Out edge found from the same address, under
\* different origins
C22_Witness ==
    /\ Done(Solo)
    /\ \E e1, e2 \in EdgesOf(result[Solo]) :
          /\ e1.edge.type = "in" /\ e2.edge.type = "out"
          /\ FoundFrom(e1) = FoundFrom(e2)
          /\ e1.from # e2.from
          /\ e1.from = "D"

\* C23: for each expanded address and direction the graph has at most one
\* edge, built from the first record of the response, which qualified; no
\* other record of the page gives an edge, and every expanded address other
\* than the root is the counterparty of such an edge.
C23_FirstRecordOnly ==
    \A p \in Procs : Done(p) =>
        /\ \A a \in Expanded(p), flow \in Flows :
              /\ Cardinality(EdgesFor(p, a, flow)) <= 1
              /\ \A e \in EdgesFor(p, a, flow) :
                    \E i \in CallIdx(p) :
                        /\ calls[p][i].address = a /\ calls[p][i].flow = flow
                        /\ Qualifying(p, i)
                        /\ BuiltFrom(p, e, i)
                        /\ KeyOf(e) = CallKey(p, i)
        /\ \A x \in Expanded(p) \ {param[p].root} :
              \E e \in EdgesOf(result[p]) : Counterparty(e) = x

\* call i returned a page whose first record is below minAmount and whose
\* second record is not
RejectedFirst(p, i) ==
    /\ GotRecord(p, i)
    /\ Len(calls[p][i].resp.data) = 2
    /\ ~Qualifying(p, i)
    /\ AmountQualifies(Amount(calls[p][i].resp.data[2]), param[p].minAmount)

\* such a page came back for both directions of a counterparty: the graph
\* has no edge for it and the senders of the second records are not expanded
C23_Witness ==
    /\ Done(Solo)
    /\ \E i, j \in CallIdx(Solo) :
          /\ calls[Solo][i].depth = 1 /\ calls[Solo][i].flow = "in"
          /\ calls[Solo][j].depth = 1 /\ calls[Solo][j].flow = "out"
          /\ calls[Solo][i].address = calls[Solo][j].address
          /\ RejectedFirst(Solo, i) /\ RejectedFirst(Solo, j)
          /\ EdgesFor(Solo, calls[Solo][i].address, "in") = {}
          /\ EdgesFor(Solo, calls[Solo][i].address, "out") = {}

\* success is true and data is not a list of records, or is an empty list
Malformed(r) == r.kind = "ok" /\ r.success /\ (~r.isArray \/ r.data = <<>>)

\* the calls of the other direction for the address of call i
OtherCalls(p, i) ==
    {j \in CallIdx(p) : /\ calls[p][j].address = calls[p][i].address
                        /\ calls[p][j].flow # calls[p][i].flow}

\* C24: a response with success true whose data is not a list, or is an
\* empty list, gives no edge for its direction; the call of the other
\* direction is issued all the same, and its qualifying first record is in
\* the graph.
C24_MalformedSkipped ==
    \A p \in Procs : Done(p) =>
        \A i \in CallIdx(p) : Malformed(calls[p][i].resp) =>
            /\ EdgesFor(p, calls[p][i].address, calls[p][i].flow) = {}
            /\ OtherCalls(p, i) # {}
            /\ \A j \in OtherCalls(p, i) :
                  Qualifying(p, j) => CallKey(p, j) \in ResultKeys(p)

\* the root's inbound data was not a list and a counterparty's outbound page
\* was empty; the other direction of each gave an edge
C24_Witness ==
    /\ Done(Solo)
    /\ \E i, j \in CallIdx(Solo) :
          /\ calls[Solo][i].depth = 0 /\ calls[Solo][i].flow = "in"
          /\ calls[Solo][i].resp = Ok(TRUE, FALSE, <<>>)
          /\ EdgesFor(Solo, calls[Solo][i].address, "out") # {}
          /\ calls[Solo][j].depth = 1 /\ calls[Solo][j].flow = "out"
          /\ calls[Solo][j].resp = Ok(TRUE, TRUE, <<>>)
          /\ EdgesFor(Solo, calls[Solo][j].address, "in") # {}

\* ------------------------------------------------- failures in the batch
\* the fetch of a seed failed: axios rejected, or the body reports no success
FailedSeed(r) == r.kind = "throw" \/ (r.kind = "ok" /\ ~r.success)

\* the adjacency lists of the seeds whose fetch did not fail, in seed order
RECURSIVE OtherSeeds(_, _)
OtherSeeds(maps, responses) ==
    IF maps = <<>> THEN <<>>
    ELSE (IF FailedSeed(responses[1]) THEN <<>> ELSE <<maps[1]>>)
         \o OtherSeeds(Tail(maps), Tail(responses))

\* C25: the batch query completes whatever the fetches return; a seed whose
\* fetch failed contributes no edge, and the merged graph is the merge of
\* the other seeds' graphs: one edge for the first record of each of them.
C25_FailedSeedContained ==
    batch.pc = "done" =>
        LET good == {i \in 1..Len(batch.addresses) :
                        ~FailedSeed(batch.responses[i]) /\ HasFirst(batch.responses[i])}
        IN /\ \A i \in 1..Len(batch.addresses) :
                 FailedSeed(batch.responses[i]) => batch.maps[i] = EmptyMap
           /\ batch.merged = mergeMaps(OtherSeeds(batch.maps, batch.responses))
           /\ NumEdges(batch.merged) = Cardinality(good)
           /\ \A i \in good :
                 \E e \in EdgesOf(batch.merged) :
                     /\ e.from = batch.responses[i].data[1].from_address
                     /\ e.edge.to = batch.addresses[i]

\* the fetch of one seed was rejected and the graph is the edge of the other
C25_Witness ==
    /\ batch.pc = "done"
    /\ \E i, j \in 1..Len(batch.addresses) :
          /\ batch.responses[i].kind = "throw"
          /\ HasFirst(batch.responses[j])
          /\ NumEdges(batch.merged) = 1

\* ------------------------------------------------------- keys and edges
\* C27: when a traversal completes, the recorded transaction keys are
\* exactly the (origin, to, timestamp) triples of the edges of its graph, one
\* edge for each key.
C27_KeysAreEdges ==
    \A p \in Procs : Done(p) =>
        /\ ResultKeys(p) = processedTx[p]
        /\ NumEdges(result[p]) = Cardinality(processedTx[p])

\* a graph merged from two levels of recursion, with two edges under one
\* origin, returned after a later call had failed
C27_Witness ==
    /\ Done(Solo)
    /\ NumEdges(result[Solo]) >= 3
    /\ \E i \in 1..Len(result[Solo]) : Len(result[Solo][i].edges) >= 2
    /\ \E i, j \in CallIdx(Solo) :
          /\ i < j
          /\ calls[Solo][i].depth = 2 /\ Qualifying(Solo, i)
          /\ CallKey(Solo, i) \in ResultKeys(Solo)
          /\ Failed(Solo, j)

\* C28: a traversal with maxDepth = 2 expands at most 3 addresses, issues at
\* most 6 Fetcher calls and returns a graph of at most 6 edges.
C28_EntryBounds ==
    \A p \in Procs : param[p].maxDepth = DefaultMaxDepth =>
        /\ Cardinality(Expanded(p)) <= 3
        /\ Len(calls[p]) <= 6
        /\ \A i \in CallIdx(p) : calls[p][i].depth <= 1
        /\ Done(p) => NumEdges(result[p]) <= 6

\* the three bounds are reached
C28_Witness ==
    /\ Done(Solo)
    /\ param[Solo].maxDepth = DefaultMaxDepth
    /\ Cardinality(Expanded(Solo)) = 3
    /\ Len(calls[Solo]) = 6
    /\ NumEdges(result[Solo]) = 6

\* C29 (as claimed): after the classification of the graph of a traversal
\* with maxDepth = 2, every origin has a depth and every depth is in -2..2.
C29_DepthsInReportRange ==
    \A p \in Procs : (Done(p) /\ param[p].maxDepth = DefaultMaxDepth) =>
        /\ Keys(result[p]) \subseteq DOMAIN addressDepth(p)
        /\ \A a \in DOMAIN addressDepth(p) : addressDepth(p)[a] \in -2..2

\* C30: the depth map after the first run of the classification loop is a
\* fixed point of the loop: the repeated runs leave it as it is.
C30_PassFixedPoint ==
    /\ [](cls.pc = "done" => ClassifyPass(cls.graph, cls.depths) = cls.depths)
    /\ [][(cls.pc = "pass1" /\ cls'.pc = "done") =>
              /\ cls'.depths = cls.depths
              /\ ClassifyPass(cls.graph, cls.depths) = cls.depths]_vars

\* the loops have run over a graph whose first edge reads an address that
\* only the second edge defines
C30_Witness ==
    /\ cls.pc = "done"
    /\ Len(EdgeList(cls.graph)) >= 2
    /\ LET e1 == EdgeList(cls.graph)[1]
           e2 == EdgeList(cls.graph)[2]
       IN /\ Reference(e1.from, e1.edge) = Defined(e2.from, e2.edge)
          /\ Reference(e1.from, e1.edge) # cls.root
          /\ Defined(e1.from, e1.edge) \notin {cls.root, Reference(e1.from, e1.edge)}
          /\ Reference(e2.from, e2.edge) = cls.root
          /\ DOMAIN cls.depths = {"A", "B", "C"}

====
